---- MODULE Spec2Model ----
(***************************************************************************)
(* Sabzee server: the catalogue (products), the carts, the order ledger    *)
(* and the request handlers that mutate them.  A handler that awaits the   *)
(* database between a read and a write is a process that runs from one     *)
(* await to the next; the database is the shared state.  Writes made with  *)
(* { session } are buffered in the handler's transaction and reach the     *)
(* database at commitTransaction.                                          *)
(***************************************************************************)
EXTENDS Integers, Sequences, FiniteSets, TLC

\* ------------------------------------------------------------------ bounds
NumReq == 2          \* handlers in flight at the same time
MaxStock == 2        \* largest quantity a request may name
MaxLines == 2        \* most lines of a cart / items of a direct order
MaxOrders == 2       \* orders the ledger has room for
MaxIds == 2          \* cart lines a cart is given over its life
MaxRecords == 2      \* prediction records the history has room for

\* ---------------------------------------------------------------- fixtures
Requests == 1..NumReq
Farmers == {"F1", "F2"}
Consumers == {"c1"}
Products == {"pA", "pB", "pC"}
Undefined == "undefined"

\* The farmer that created product p (farmer: req.user.id at creation).
Owner(p) == IF p = "pC" THEN "F2" ELSE "F1"

\* The price product p is created with.
ListPrice(p) == CASE p = "pA" -> 2 [] p = "pB" -> 3 [] OTHER -> 5

VARIABLES
  products,   \* Product collection: id -> document
  carts,      \* Cart collection: consumer -> document
  orders,     \* Order collection, in insertion order
  req,        \* per handler: the operation, its position and its locals
  tx,         \* per handler: its session / transaction
  resp,       \* the request answered last: operation, status code and what
              \* became of its transaction
  USE_MOCK_API, \* the prediction routers' fallback switch
  history,    \* Prediction and YieldPrediction collections, in insertion order
  call        \* per handler: the prediction request it is serving

gateway == <<USE_MOCK_API, history, call>>
vars == <<products, carts, orders, req, tx, resp, USE_MOCK_API, history, call>>

\* ------------------------------------------------------------- documents
\* productSchema.pre('save'): status follows quantity.
StatusOf(q) == IF q > 0 THEN "available" ELSE "sold_out"

NoProduct == [state |-> "new", price |-> 0, quantity |-> 0, status |-> "available"]
GoneProduct == [state |-> "deleted", price |-> 0, quantity |-> 0, status |-> "available"]
\* made: the item ids the cart has handed out (an ObjectId is never used
\* twice); dups: further cart documents of the same user.
NoCart == [exists |-> FALSE, items |-> <<>>, total |-> 0, made |-> 0, dups |-> 0]
NoDoc == [present |-> FALSE, price |-> 0, stock |-> 0, status |-> "available"]

\* Product.findById / populate: the document as stored now, or null.
DocOf(p) ==
  IF products[p].state = "live"
  THEN [present |-> TRUE, price |-> products[p].price,
        stock |-> products[p].quantity, status |-> products[p].status]
  ELSE NoDoc

\* What save() sends for status after the hook ran on a loaded document
\* whose quantity is now q: the new value if the hook changed it, else the
\* path is unmodified and the stored value stays.
SavedStatus(doc, q) == IF StatusOf(q) # doc.status THEN StatusOf(q) ELSE "keep"

\* productSchema.quantity: { min: 0 }, checked by save().
ProductValid(q) == q >= 0

\* ---------------------------------------------------------- handler state
Idle == [op |-> "idle", pc |-> "idle", user |-> "c1", lines |-> <<>>, idx |-> 1,
         isNew |-> FALSE, vstale |-> FALSE, held |-> 0, farmerArg |-> Undefined,
         payment |-> "", shipping |-> {}]
NoTx == [state |-> "none", begun |-> FALSE, pq |-> <<>>, orders |-> <<>>, stale |-> {}]
NoResp == [op |-> "none", code |-> 0, n |-> 0, txn |-> "none", rolled |-> 0,
           isMock |-> "none"]

\* A handler slot takes a new request once the previous one has returned and
\* the transaction it may have left open is gone; the lowest free slot is
\* the one taken.
Free(r) == req[r].pc = "idle" /\ tx[r].state # "active"
Takes(r) == Free(r) /\ \A o \in 1..(r - 1) : ~Free(o)

\* res.status(code).json(...) of a handler that returns at once.
Answer(op, code) == resp' = [NoResp EXCEPT !.op = op, !.code = code]

\* res.status(code).json(...): handler r answers and returns.
\* A handler that returns without ending its transaction leaves it open.
Respond(r, code) ==
  /\ resp' = [NoResp EXCEPT !.op = req[r].op, !.code = code,
                            !.txn = IF tx[r].state = "active" THEN "open" ELSE "none"]
  /\ req' = [req EXCEPT ![r] = Idle]

\* Documents an open transaction has written and not committed: a plain
\* write to one of them waits, another transaction's write to one fails.
PendingOf(r) ==
  IF tx[r].state = "active"
  THEN {tx[r].pq[i].key : i \in 1..Len(tx[r].pq)}
  ELSE {}
LockedByOther(r, key) == \E o \in Requests \ {r} : key \in PendingOf(o)
Locked(key) == \E o \in Requests : key \in PendingOf(o)

\* A committed write to `keys` by r (0: a handler without a slot): every
\* other transaction whose snapshot is already taken now conflicts on them.
Staled(t, r, keys) ==
  [o \in Requests |->
     IF o # r /\ t[o].state = "active" /\ t[o].begun
     THEN [t[o] EXCEPT !.stale = @ \cup keys]
     ELSE t[o]]

\* A prediction handler: where it is, the request's kind and farmer, how
\* the call to the model service ended and the result it holds (isMock:
\* isMockPrediction; sound: the result passes the schema's validators).
NoCall == [pc |-> "idle", kind |-> "disease", farmer |-> "F1", outcome |-> "none",
           isMock |-> FALSE, sound |-> TRUE]

\* The prediction routers as shipped (const USE_MOCK_API = true), no
\* prediction made or under way.
GatewayAtRest ==
  /\ USE_MOCK_API = TRUE
  /\ history = <<>>
  /\ call = [g \in Requests |-> NoCall]

\* The empty database.
Init ==
  /\ products = [p \in Products |-> NoProduct]
  /\ carts = [c \in Consumers |-> NoCart]
  /\ orders = <<>>
  /\ req = [r \in Requests |-> Idle]
  /\ tx = [r \in Requests |-> NoTx]
  /\ resp = NoResp
  /\ GatewayAtRest

\* ------------------------------------------------------------- products
\* POST /api/products: new Product({... quantity ...}).save().
ProductCreate(p, q) ==
  /\ products[p].state = "new"
  /\ IF ProductValid(q)
     THEN /\ products' = [products EXCEPT ![p] =
                [state |-> "live", price |-> ListPrice(p), quantity |-> q,
                 status |-> StatusOf(q)]]
          /\ Answer("productCreate", 201)
     ELSE /\ Answer("productCreate", 500)
          /\ UNCHANGED products
  /\ UNCHANGED <<carts, orders, req, tx>>
  /\ UNCHANGED gateway

\* Product.findByIdAndUpdate(id, { $set: updateData }, { new: true }): the
\* fields are stored as sent; no save() hook and no schema validator runs.
UpdatedProduct(doc, setQ, q, setP, price) ==
  [doc EXCEPT !.quantity = IF setQ THEN q ELSE @,
              !.price = IF setP THEN price ELSE @]

\* PUT /api/products/:id
ProductUpdate(p, actor, setQ, q, setP, price) ==
  /\ ~Locked(p)
  /\ setQ \/ setP
  /\ IF products[p].state # "live"
     THEN /\ Answer("productUpdate", 404)
          /\ UNCHANGED <<products, tx>>
     ELSE IF Owner(p) # actor
     THEN /\ Answer("productUpdate", 401)
          /\ UNCHANGED <<products, tx>>
     ELSE /\ products' = [products EXCEPT ![p] = UpdatedProduct(@, setQ, q, setP, price)]
          /\ tx' = Staled(tx, 0, {p})
          /\ Answer("productUpdate", 200)
  /\ UNCHANGED <<carts, orders, req>>
  /\ UNCHANGED gateway

\* DELETE /api/products/:id: Product.deleteOne({ _id }).
ProductDelete(p, actor) ==
  /\ ~Locked(p)
  /\ IF products[p].state # "live"
     THEN /\ Answer("productDelete", 404)
          /\ UNCHANGED <<products, tx>>
     ELSE IF Owner(p) # actor
     THEN /\ Answer("productDelete", 401)
          /\ UNCHANGED <<products, tx>>
     ELSE /\ products' = [products EXCEPT ![p] = GoneProduct]
          /\ tx' = Staled(tx, 0, {p})
          /\ Answer("productDelete", 200)
  /\ UNCHANGED <<carts, orders, req>>
  /\ UNCHANGED gateway

\* ----------------------------------------------------------------- carts
\* cartSchema.pre('save'): the total is recomputed from the cart as stored
\* (findOne({ _id }).populate('items.product', 'price')), skipping lines
\* whose product is gone.
RECURSIVE CartTotal(_)
CartTotal(items) ==
  IF items = <<>> THEN 0
  ELSE (IF products[Head(items).product].state = "live"
        THEN products[Head(items).product].price * Head(items).quantity
        ELSE 0) + CartTotal(Tail(items))

\* cart.items.findIndex(item => item.product.toString() === productId)
RECURSIVE FindIndexFrom(_, _, _)
FindIndexFrom(items, p, i) ==
  IF i > Len(items) THEN 0
  ELSE IF items[i].product = p THEN i
  ELSE FindIndexFrom(items, p, i + 1)
FindIndex(items, p) == FindIndexFrom(items, p, 1)

\* A cart write that leaves the version as it is.
OutdateNever(q, r, c) == q

\* A write to cart c by r that increments its version (__v: a $push or a
\* $set of the whole items array): the handlers that loaded the cart before
\* it hold an outdated version.
Outdate(q, r, c) ==
  [o \in Requests |->
     IF /\ o # r /\ q[o].user = c
        /\ \/ q[o].op \in {"cartAdd", "cartUpdate", "cartRemove"}
              /\ q[o].pc = "save" /\ ~q[o].isNew
           \/ q[o].op = "checkout" /\ q[o].pc # "idle"
     THEN [q[o] EXCEPT !.vstale = TRUE]
     ELSE q[o]]

\* cart.items.id(itemId): the position of the line with that id, 0 if none.
RECURSIVE IndexOfId(_, _, _)
IndexOfId(items, id, i) ==
  IF i > Len(items) THEN 0
  ELSE IF items[i].id = id THEN i
  ELSE IndexOfId(items, id, i + 1)

\* A product check that lets every product pass.
UnavailableNever(doc, q) == FALSE

\* product.status !== 'available' / product.quantity < quantity
Unavailable(doc, q) == doc.status # "available" \/ doc.stock < q

\* A unique index that rejects nothing.
DuplicateKeyNever(cart) == FALSE

\* user: { unique: true }: the insert of a second cart of the user fails.
DuplicateKey(cart) == cart.exists

\* new Cart({ user, items: [] }), items.push(line), save(): an insert.  The
\* hook finds no stored cart and sets total 0.
InsertCart(cart, line) ==
  IF cart.exists
  THEN [cart EXCEPT !.dups = @ + 1]
  ELSE [exists |-> TRUE, items |-> <<[line EXCEPT !.id = 1]>>, total |-> 0,
        made |-> 1, dups |-> 0]

\* GET /api/cart: the stored cart, or an empty cart object that is not
\* stored.
CartGet(c) ==
  /\ resp' = [NoResp EXCEPT !.op = "cartGet", !.code = 200,
                            !.n = Len(carts[c].items)]
  /\ UNCHANGED <<products, carts, orders, req, tx>>
  /\ UNCHANGED gateway

\* POST /api/cart, up to Cart.findOne: the product checks and the cart read.
CartAddStart(r, c, p, q) ==
  /\ Takes(r)
  /\ tx' = [tx EXCEPT ![r] = NoTx]
  /\ IF ~DocOf(p).present
     THEN /\ Answer("cartAdd", 404)
          /\ UNCHANGED req
     ELSE IF Unavailable(DocOf(p), q)
     THEN /\ Answer("cartAdd", 400)
          /\ UNCHANGED req
     ELSE /\ \/ FindIndex(carts[c].items, p) > 0
             \/ Len(carts[c].items) < MaxLines /\ carts[c].made < MaxIds
          /\ req' = [req EXCEPT ![r] =
               [Idle EXCEPT !.op = "cartAdd", !.pc = "save", !.user = c,
                            !.lines = <<[product |-> p, quantity |-> q, doc |-> DocOf(p)]>>,
                            !.isNew = ~carts[c].exists,
                            !.idx = FindIndex(carts[c].items, p),
                            !.held = IF FindIndex(carts[c].items, p) > 0
                                     THEN carts[c].items[FindIndex(carts[c].items, p)].quantity
                                     ELSE 0]]
          /\ UNCHANGED resp
  /\ UNCHANGED <<products, carts, orders>>
  /\ UNCHANGED gateway

\* A save that adds the requested quantity to the line's.
SetQuantityAdding(r, op, c, q) ==
  /\ carts' = [carts EXCEPT ![c] =
        [@ EXCEPT !.items[req[r].idx].quantity = @ + q,
                  !.total = CartTotal(carts[c].items)]]
  /\ tx' = Staled(tx, r, {c})
  /\ resp' = [NoResp EXCEPT !.op = op, !.code = 200]
  /\ req' = [req EXCEPT ![r] = Idle]

\* cart.items[i].quantity = quantity; cart.save(): a positional $set sent
\* with the version the cart was loaded with.  A quantity equal to the one
\* loaded modifies nothing: no write, and the hook leaves the total.
SetQuantity(r, op, c, q) ==
  IF q = req[r].held
  THEN /\ resp' = [NoResp EXCEPT !.op = op, !.code = 200]
       /\ req' = [req EXCEPT ![r] = Idle]
       /\ UNCHANGED <<carts, tx>>
  ELSE IF req[r].vstale \/ req[r].idx > Len(carts[c].items)
  THEN /\ resp' = [NoResp EXCEPT !.op = op, !.code = 500]
       /\ req' = [req EXCEPT ![r] = Idle]
       /\ UNCHANGED <<carts, tx>>
  ELSE /\ carts' = [carts EXCEPT ![c] =
             [@ EXCEPT !.items[req[r].idx].quantity = q,
                       !.total = CartTotal(carts[c].items)]]
       /\ tx' = Staled(tx, r, {c})
       /\ resp' = [NoResp EXCEPT !.op = op, !.code = 200]
       /\ req' = [req EXCEPT ![r] = Idle]

\* POST /api/cart, cart.save(): an insert for a new cart, a positional $set
\* for a replaced line, a $push (which increments the version and is not
\* guarded by it) for a new line.
CartAddSave(r) ==
  /\ req[r].op = "cartAdd" /\ req[r].pc = "save"
  /\ LET c == req[r].user
         p == req[r].lines[1].product
         q == req[r].lines[1].quantity
         line == [id |-> carts[c].made + 1, product |-> p, quantity |-> q]
     IN /\ ~Locked(c)
        /\ IF req[r].isNew
           THEN IF DuplicateKey(carts[c])
                THEN /\ Respond(r, 500)
                     /\ UNCHANGED <<carts, tx>>
                ELSE /\ carts' = [carts EXCEPT ![c] = InsertCart(@, line)]
                     /\ tx' = Staled(tx, r, {c})
                     /\ Respond(r, 200)
           ELSE IF req[r].idx > 0
           THEN SetQuantity(r, "cartAdd", c, q)
           ELSE /\ carts' = [carts EXCEPT ![c] =
                      [@ EXCEPT !.items = Append(@, line),
                                !.made = @ + 1,
                                !.total = CartTotal(carts[c].items)]]
                /\ tx' = Staled(tx, r, {c})
                /\ resp' = [NoResp EXCEPT !.op = "cartAdd", !.code = 200]
                /\ req' = [Outdate(req, r, c) EXCEPT ![r] = Idle]
  /\ UNCHANGED <<products, orders>>
  /\ UNCHANGED gateway

\* PUT /api/cart/:itemId up to the save: the cart read, cart.items.id and
\* the product checks.
CartUpdateStart(r, c, id, q) ==
  /\ Takes(r)
  /\ tx' = [tx EXCEPT ![r] = NoTx]
  /\ LET i == IndexOfId(carts[c].items, id, 1)
         doc == IF i > 0 THEN DocOf(carts[c].items[i].product) ELSE NoDoc
     IN IF ~carts[c].exists \/ i = 0 \/ ~doc.present
        THEN /\ Answer("cartUpdate", 404)
             /\ UNCHANGED req
        ELSE IF Unavailable(doc, q)
        THEN /\ Answer("cartUpdate", 400)
             /\ UNCHANGED req
        ELSE /\ req' = [req EXCEPT ![r] =
                  [Idle EXCEPT !.op = "cartUpdate", !.pc = "save", !.user = c,
                               !.lines = <<[product |-> carts[c].items[i].product,
                                            quantity |-> q, doc |-> doc]>>,
                               !.idx = i,
                               !.held = carts[c].items[i].quantity]]
             /\ UNCHANGED resp
  /\ UNCHANGED <<products, carts, orders>>
  /\ UNCHANGED gateway

\* PUT /api/cart/:itemId: item.quantity = quantity; cart.save().
CartUpdateSave(r) ==
  /\ req[r].op = "cartUpdate" /\ req[r].pc = "save"
  /\ ~Locked(req[r].user)
  /\ SetQuantity(r, "cartUpdate", req[r].user, req[r].lines[1].quantity)
  /\ UNCHANGED <<products, orders>>
  /\ UNCHANGED gateway

\* this.items.filter(item => item._id.toString() !== itemId)
Without(items, id) == SelectSeq(items, LAMBDA it : it.id # id)

\* DELETE /api/cart/:itemId up to removeItem: the cart read.  The lines the
\* handler holds are the loaded ones.
CartRemoveStart(r, c, id) ==
  /\ Takes(r)
  /\ tx' = [tx EXCEPT ![r] = NoTx]
  /\ IF ~carts[c].exists
     THEN /\ Answer("cartRemove", 404)
          /\ UNCHANGED req
     ELSE /\ req' = [req EXCEPT ![r] =
               [Idle EXCEPT !.op = "cartRemove", !.pc = "save", !.user = c,
                            !.lines = carts[c].items, !.idx = id]]
          /\ UNCHANGED resp
  /\ UNCHANGED <<products, carts, orders>>
  /\ UNCHANGED gateway

\* cartSchema.methods.removeItem: the loaded items without the one of that
\* id are $set as the whole array, guarded by the version; with no such item
\* nothing is modified and nothing is written.  The answer is 200 in both
\* cases.
CartRemoveSave(r) ==
  /\ req[r].op = "cartRemove" /\ req[r].pc = "save"
  /\ LET c == req[r].user
         kept == Without(req[r].lines, req[r].idx)
     IN /\ ~Locked(c)
        /\ IF kept = req[r].lines
           THEN /\ resp' = [NoResp EXCEPT !.op = "cartRemove", !.code = 200]
                /\ req' = [req EXCEPT ![r] = Idle]
                /\ UNCHANGED <<carts, tx>>
           ELSE IF req[r].vstale
           THEN /\ resp' = [NoResp EXCEPT !.op = "cartRemove", !.code = 500]
                /\ req' = [req EXCEPT ![r] = Idle]
                /\ UNCHANGED <<carts, tx>>
           ELSE /\ carts' = [carts EXCEPT ![c] =
                      [@ EXCEPT !.items = kept, !.total = CartTotal(carts[c].items)]]
                /\ tx' = Staled(tx, r, {c})
                /\ resp' = [NoResp EXCEPT !.op = "cartRemove", !.code = 200]
                /\ req' = [Outdate(req, r, c) EXCEPT ![r] = Idle]
  /\ UNCHANGED <<products, orders>>
  /\ UNCHANGED gateway

\* ---------------------------------------------------------------- orders
\* The line items a handler has validated: product id, quantity and the
\* price of the product document it loaded.
Taken(lines) ==
  [i \in 1..Len(lines) |->
     [product |-> lines[i].product, quantity |-> lines[i].quantity,
      price |-> lines[i].doc.price]]

\* A total that adds the unit prices and leaves the quantities out.
RECURSIVE ItemsTotalOfPrices(_)
ItemsTotalOfPrices(items) ==
  IF items = <<>> THEN 0
  ELSE Head(items).price + ItemsTotalOfPrices(Tail(items))

\* items.reduce((total, item) => total + item.price * item.quantity, 0)
RECURSIVE ItemsTotal(_)
ItemsTotal(items) ==
  IF items = <<>> THEN 0
  ELSE Head(items).price * Head(items).quantity + ItemsTotal(Tail(items))

\* A grouping that opens a new group for every item instead of reusing the
\* farmer's group.
RECURSIVE FarmerKeysPerItem(_, _)
FarmerKeysPerItem(items, seen) ==
  IF items = <<>> THEN <<>>
  ELSE <<Owner(Head(items).product)>> \o FarmerKeysPerItem(Tail(items), seen)

\* Keys of itemsByFarmer in insertion order: the farmer of each item, first
\* occurrence only.
RECURSIVE FarmerKeys(_, _)
FarmerKeys(items, seen) ==
  IF items = <<>> THEN <<>>
  ELSE LET f == Owner(Head(items).product)
       IN IF f \in seen THEN FarmerKeys(Tail(items), seen)
          ELSE <<f>> \o FarmerKeys(Tail(items), seen \cup {f})

\* itemsByFarmer[farmerId]
ItemsOfFarmer(items, f) == SelectSeq(items, LAMBDA it : Owner(it.product) = f)

\* new Order({ consumer, farmer, items, totalAmount, ... }); status defaults
\* to pending.
NewOrder(consumer, farmer, items, total, payment, shipping) ==
  [consumer |-> consumer, farmer |-> farmer, items |-> items,
   totalAmount |-> total, status |-> "pending", cancelReason |-> "",
   paymentMethod |-> payment, shippingDetails |-> shipping]

\* The orders checkout builds, one per key of itemsByFarmer, all with the
\* request's paymentMethod and shippingDetails.
OrdersByFarmer(consumer, items, payment, shipping) ==
  LET keys == FarmerKeys(items, {})
  IN [k \in 1..Len(keys) |->
        NewOrder(consumer, keys[k], ItemsOfFarmer(items, keys[k]),
                 ItemsTotal(ItemsOfFarmer(items, keys[k])), payment, shipping)]

\* isIn(['cash-on-delivery', 'online', 'bank_transfer'])
PaymentMethods == {"cash-on-delivery", "online", "bank_transfer"}

\* The fields of shippingDetails; a request's shippingDetails is the set of
\* those it fills in (the empty set: no shippingDetails at all).
ShippingFields == {"fullName", "address", "city", "state", "postalCode", "phoneNumber"}

\* Order schema validation at order.save(): the farmer reference is
\* mandatory, the payment method is one of the enumerated set and every
\* field of the shipping details is mandatory.
OrderValid(o) ==
  /\ o.farmer \in Farmers
  /\ o.paymentMethod \in PaymentMethods
  /\ o.shippingDetails = ShippingFields

\* The orders the handlers other than r may still store: the ledger takes a
\* new request only while it has room for them.
InFlight(o) ==
  IF req[o].op = "checkout" THEN Len(FarmerKeys(req[o].lines, {}))
  ELSE IF req[o].op = "order" THEN 1
  ELSE 0
RECURSIVE BookedUpTo(_, _)
BookedUpTo(r, n) ==
  IF n = 0 THEN 0
  ELSE (IF n = r THEN 0 ELSE InFlight(n)) + BookedUpTo(r, n - 1)
Booked(r) == BookedUpTo(r, NumReq)

\* product.save({ session }): the write is buffered in the transaction.
Buffered(pq, p, doc, left) ==
  Append(pq, [key |-> p, quantity |-> left, status |-> SavedStatus(doc, left)])

\* The products a transaction's buffered writes leave, applied in order.
RECURSIVE ApplyWrites(_, _)
ApplyWrites(prods, pq) ==
  IF pq = <<>> THEN prods
  ELSE ApplyWrites(
         [prods EXCEPT ![Head(pq).key].quantity = Head(pq).quantity,
                       ![Head(pq).key].status =
                          IF Head(pq).status = "keep" THEN @ ELSE Head(pq).status],
         Tail(pq))

\* A catch block that answers 500 but lets the buffered product writes
\* through instead of aborting the transaction.
CheckoutAbortKeepingWrites(r) ==
  /\ tx' = [tx EXCEPT ![r] = NoTx]
  /\ resp' = [NoResp EXCEPT !.op = "checkout", !.code = 500, !.txn = "aborted",
                            !.rolled = Len(tx[r].pq)]
  /\ req' = [req EXCEPT ![r] = Idle]
  /\ products' = ApplyWrites(products, tx[r].pq)
  /\ UNCHANGED <<carts, orders>>

\* catch (err) of checkout: abortTransaction, endSession, 500.
\* The buffered writes (rolled counts them) and orders are dropped.
CheckoutAbort(r) ==
  /\ tx' = [tx EXCEPT ![r] = NoTx]
  /\ resp' = [NoResp EXCEPT !.op = "checkout", !.code = 500, !.txn = "aborted",
                            !.rolled = Len(tx[r].pq)]
  /\ req' = [req EXCEPT ![r] = Idle]
  /\ UNCHANGED <<products, carts, orders>>

\* A stock check that lets every quantity pass.
InsufficientNever(doc, q) == FALSE

\* product.quantity < cartItem.quantity / product.quantity < item.quantity
Insufficient(doc, q) == doc.stock < q

\* A checkout that removes the cart document instead of emptying it.
ClearedByDelete(cart, total) == NoCart

\* cart.items = []; the save hook sets the total it computed.
Cleared(cart, total) == [cart EXCEPT !.items = <<>>, !.total = total]

\* A validation that lets a request without payment method pass.
MissingPaymentNever(payment) == FALSE

\* if (!paymentMethod)
MissingPayment(payment) == payment = ""

\* if (!shippingDetails || !shippingDetails.address)
MissingShipping(shipping) == "address" \notin shipping

\* POST /api/orders/checkout up to the cart read: startTransaction, input
\* validation, Cart.findOne(...).populate('items.product').
CheckoutStart(r, c, payment, shipping) ==
  /\ Takes(r)
  /\ Len(orders) + Booked(r) + Len(FarmerKeys(carts[c].items, {})) <= MaxOrders
  /\ tx' = [tx EXCEPT ![r] = [NoTx EXCEPT !.state = "active"]]
  /\ IF \/ MissingPayment(payment) \/ MissingShipping(shipping)
        \/ ~carts[c].exists \/ carts[c].items = <<>>
     THEN /\ resp' = [NoResp EXCEPT !.op = "checkout", !.code = 400, !.txn = "open"]
          /\ UNCHANGED req
     ELSE /\ req' = [req EXCEPT ![r] =
               [Idle EXCEPT !.op = "checkout", !.pc = "item", !.user = c,
                            !.payment = payment, !.shipping = shipping,
                            !.lines = [i \in 1..Len(carts[c].items) |->
                                         [product |-> carts[c].items[i].product,
                                          quantity |-> carts[c].items[i].quantity,
                                          doc |-> DocOf(carts[c].items[i].product)]]]]
          /\ UNCHANGED resp
  /\ UNCHANGED <<products, carts, orders>>
  /\ UNCHANGED gateway

\* One turn of the loop over cart.items: the presence and stock checks, the
\* decrement of the loaded document and product.save({ session }).
CheckoutItem(r, fail) ==
  /\ req[r].op = "checkout" /\ req[r].pc = "item"
  /\ LET line == req[r].lines[req[r].idx]
         p == line.product
         left == line.doc.stock - line.quantity
     IN IF ~line.doc.present
        THEN /\ Respond(r, 404)
             /\ UNCHANGED <<products, carts, orders, tx>>
        ELSE IF Insufficient(line.doc, line.quantity)
        THEN /\ Respond(r, 400)
             /\ UNCHANGED <<products, carts, orders, tx>>
        ELSE IF \/ fail
                \/ products[p].state # "live"
                \/ LockedByOther(r, p)
                \/ p \in tx[r].stale
        THEN CheckoutAbort(r)
        ELSE /\ tx' = [tx EXCEPT ![r].begun = TRUE,
                                 ![r].pq = Buffered(@, p, line.doc, left)]
             /\ req' = [req EXCEPT ![r].idx = @ + 1,
                                   ![r].pc = IF req[r].idx = Len(req[r].lines)
                                             THEN "orders" ELSE "item"]
             /\ UNCHANGED <<products, carts, orders, resp>>
  /\ UNCHANGED gateway

\* The loop over itemsByFarmer: one order.save({ session }) per farmer.
CheckoutOrders(r, fail) ==
  /\ req[r].op = "checkout" /\ req[r].pc = "orders"
  /\ LET built == OrdersByFarmer(req[r].user, Taken(req[r].lines),
                                  req[r].payment, req[r].shipping)
     IN IF fail \/ \E k \in 1..Len(built) : ~OrderValid(built[k])
        THEN CheckoutAbort(r)
        ELSE /\ tx' = [tx EXCEPT ![r].orders = built]
             /\ req' = [req EXCEPT ![r].pc = "commit"]
             /\ UNCHANGED <<products, carts, orders, resp>>
  /\ UNCHANGED gateway

\* cart.items = []; cart.save({ session }) (a $set of the whole array,
\* guarded by the version the cart was loaded with); commitTransaction;
\* endSession; 201 with the orders.
CheckoutCommit(r, fail) ==
  /\ req[r].op = "checkout" /\ req[r].pc = "commit"
  /\ LET c == req[r].user
     IN IF fail \/ req[r].vstale \/ LockedByOther(r, c) \/ c \in tx[r].stale
        THEN CheckoutAbort(r)
        ELSE /\ products' = ApplyWrites(products, tx[r].pq)
             /\ orders' = orders \o tx[r].orders
             /\ carts' = [carts EXCEPT ![c] = Cleared(@, CartTotal(carts[c].items))]
             /\ tx' = Staled([tx EXCEPT ![r] = NoTx], r, PendingOf(r) \cup {c})
             /\ resp' = [NoResp EXCEPT !.op = "checkout", !.code = 201,
                                       !.n = Len(tx[r].orders), !.txn = "committed"]
             /\ req' = [Outdate(req, r, c) EXCEPT ![r] = Idle]
  /\ UNCHANGED gateway

\* The server drops a transaction its handler left open
\* (transactionLifetimeLimitSeconds): its buffered writes are discarded.
TxExpire(r) ==
  /\ tx[r].state = "active" /\ req[r].pc = "idle"
  /\ tx' = [tx EXCEPT ![r] = NoTx]
  /\ UNCHANGED <<products, carts, orders, req, resp>>
  /\ UNCHANGED gateway

\* POST /api/orders up to the loop: the express-validator checks; a
\* request that passes them has an enumerated paymentMethod and every
\* field of shippingDetails.
OrderStart(r, c, items, farmerArg, valid) ==
  /\ Takes(r)
  /\ Len(orders) + Booked(r) + 1 <= MaxOrders
  /\ tx' = [tx EXCEPT ![r] = NoTx]
  /\ IF ~valid
     THEN /\ Answer("order", 400)
          /\ UNCHANGED req
     ELSE /\ req' = [req EXCEPT ![r] =
               [Idle EXCEPT !.op = "order", !.user = c, !.farmerArg = farmerArg,
                            !.payment = "online", !.shipping = ShippingFields,
                            !.pc = IF items = <<>> THEN "create" ELSE "find",
                            !.lines = [i \in 1..Len(items) |->
                                         [product |-> items[i].product,
                                          quantity |-> items[i].quantity,
                                          doc |-> NoDoc]]]]
          /\ UNCHANGED resp
  /\ UNCHANGED <<products, carts, orders>>
  /\ UNCHANGED gateway

\* Product.findById(item.product) and the checks on what it returned.
OrderFind(r) ==
  /\ req[r].op = "order" /\ req[r].pc = "find"
  /\ LET i == req[r].idx
         doc == DocOf(req[r].lines[i].product)
     IN IF ~doc.present
        THEN Respond(r, 404)
        ELSE IF Insufficient(doc, req[r].lines[i].quantity)
        THEN Respond(r, 400)
        ELSE /\ req' = [req EXCEPT ![r].lines[i].doc = doc, ![r].pc = "save"]
             /\ UNCHANGED resp
  /\ UNCHANGED <<products, carts, orders, tx>>
  /\ UNCHANGED gateway

\* product.quantity -= item.quantity; product.save(): the quantity computed
\* from the loaded document is written over the stored one.
Reserved(doc, p, left, status) ==
  [doc EXCEPT !.quantity = left,
              !.status = IF status = "keep" THEN @ ELSE status]

OrderSave(r) ==
  /\ req[r].op = "order" /\ req[r].pc = "save"
  /\ LET i == req[r].idx
         line == req[r].lines[i]
         p == line.product
         left == line.doc.stock - line.quantity
     IN /\ ~Locked(p)
        /\ IF products[p].state # "live"
           THEN /\ Respond(r, 500)
                /\ UNCHANGED <<products, tx>>
           ELSE /\ products' = [products EXCEPT ![p] =
                      Reserved(@, p, left, SavedStatus(line.doc, left))]
                /\ tx' = Staled(tx, r, {p})
                /\ req' = [req EXCEPT ![r].idx = @ + 1,
                                      ![r].pc = IF i = Len(req[r].lines)
                                                THEN "create" ELSE "find"]
                /\ UNCHANGED resp
  /\ UNCHANGED <<carts, orders>>
  /\ UNCHANGED gateway

\* farmer: validatedItems[0].product.farmer: what the request's first item
\* carries as product.farmer (undefined for a plain id).
DirectFarmer(farmerArg, items) == farmerArg

\* new Order({ farmer: validatedItems[0].product.farmer, ... }).save(); with
\* no items validatedItems[0] is undefined and the handler throws.
OrderCreate(r) ==
  /\ req[r].op = "order" /\ req[r].pc = "create"
  /\ LET items == Taken(req[r].lines)
         order == NewOrder(req[r].user, DirectFarmer(req[r].farmerArg, items),
                           items, ItemsTotal(items), req[r].payment, req[r].shipping)
     IN IF items = <<>> \/ ~OrderValid(order)
        THEN /\ Respond(r, 500)
             /\ UNCHANGED orders
        ELSE /\ orders' = Append(orders, order)
             /\ resp' = [NoResp EXCEPT !.op = "order", !.code = 201, !.n = 1]
             /\ req' = [req EXCEPT ![r] = Idle]
  /\ UNCHANGED <<products, carts, tx>>
  /\ UNCHANGED gateway

\* ------------------------------------------------------- order status
Statuses == {"pending", "confirmed", "processing", "shipped", "delivered", "cancelled"}
\* check('status').isIn([...]) of PUT /api/orders/:id
SettableStatuses == {"confirmed", "processing", "shipped", "delivered", "cancelled"}
Reasons == {"", "spoiled"}

\* authorize('farmer'): only accounts with the farmer role pass.
AuthorizeFarmer(actor) == actor \in Farmers

\* An ownership test every farmer passes.
OwnsOrderAlways(actor, o) == TRUE

\* order.farmer.toString() !== req.user.id
OwnsOrder(actor, o) == o.farmer = actor

\* An update that also drops the order's total.
WithStatusUntotalled(o, status, reason) ==
  [o EXCEPT !.status = status, !.totalAmount = 0]

\* order.status = req.body.status; for cancelled also
\* order.cancelReason = req.body.cancelReason.  No other path is assigned.
WithStatus(o, status, reason) ==
  [o EXCEPT !.status = status,
            !.cancelReason = IF status = "cancelled" THEN reason ELSE @]

\* PUT /api/orders/:id
SetStatus(actor, k, status, reason) ==
  /\ IF ~AuthorizeFarmer(actor)
     THEN /\ Answer("setStatus", 403)
          /\ UNCHANGED orders
     ELSE IF status \notin SettableStatuses
     THEN /\ Answer("setStatus", 400)
          /\ UNCHANGED orders
     ELSE IF k > Len(orders)
     THEN /\ Answer("setStatus", 404)
          /\ UNCHANGED orders
     ELSE IF ~OwnsOrder(actor, orders[k])
     THEN /\ Answer("setStatus", 401)
          /\ UNCHANGED orders
     ELSE IF ~OrderValid(orders[k])
     THEN /\ Answer("setStatus", 500)
          /\ UNCHANGED orders
     ELSE /\ orders' = [orders EXCEPT ![k] = WithStatus(@, status, reason)]
          /\ Answer("setStatus", 200)
  /\ UNCHANGED <<products, carts, req, tx>>
  /\ UNCHANGED gateway

\* ------------------------------------------------- prediction gateway
\* POST /api/predictions (disease) and POST /api/yield-predictions (yield).
Kinds == {"disease", "yield"}

\* How axios.post(url, body, { timeout: 15000 }) ends: a 2xx response; a
\* response with an error status (err.response set); a refused connection
\* (err.code ECONNREFUSED); the timeout (err.code ECONNABORTED, no
\* response).
Outcomes == {"ok", "error", "refused", "timeout"}

\* The status of an error response of the model service.
UpstreamStatus == 422

\* err.response
HasResponse(outcome) == outcome = "error"

\* err.code
ErrCode(outcome) ==
  CASE outcome = "refused" -> "ECONNREFUSED"
    [] outcome = "timeout" -> "ECONNABORTED"
    [] OTHER -> "ERR_BAD_RESPONSE"

\* The outer catch block: the status the handler answers a rethrown
\* apiError with.
Failure(outcome) ==
  IF HasResponse(outcome) THEN UpstreamStatus
  ELSE IF ErrCode(outcome) = "ECONNREFUSED" THEN 503
  ELSE 500

\* new Prediction({... isMock }) / new YieldPrediction({... isMock }): the
\* document keeps the paths its schema declares.  yieldPredictionSchema
\* declares isMock, predictionSchema does not (strict mode drops it).
Flag(b) == IF b THEN "true" ELSE "false"
Document(kind, farmer, isMock) ==
  [kind |-> kind, farmerId |-> farmer,
   isMock |-> IF kind = "yield" THEN Flag(isMock) ELSE "absent"]

\* A save that stores nothing.
StoredNowhere(records, doc) == records

\* predictionDoc.save() / yieldPrediction.save()
Stored(records, doc) == Append(records, doc)

\* The predictions under way: the history takes a new request only while
\* it has room for them.
Calling == Cardinality({g \in Requests : call[g].pc # "idle"})

\* POST up to axios.post: protect, authorize('farmer'), the validators.
PredictStart(g, kind, actor, valid) ==
  /\ call[g].pc = "idle"
  /\ Len(history) + Calling < MaxRecords
  /\ IF ~AuthorizeFarmer(actor)
     THEN /\ Answer(kind, 403)
          /\ UNCHANGED call
     ELSE IF ~valid
     THEN /\ Answer(kind, 400)
          /\ UNCHANGED call
     ELSE /\ call' = [call EXCEPT ![g] =
               [NoCall EXCEPT !.pc = "await", !.kind = kind, !.farmer = actor]]
          /\ UNCHANGED resp
  /\ UNCHANGED <<products, carts, orders, req, tx, USE_MOCK_API, history>>

\* The call to the model service returns or throws: the result of the
\* service (isMockPrediction = data.is_mock === true), the local mock
\* result if USE_MOCK_API, else the error is rethrown to the outer catch.
PredictReply(g, outcome, is_mock, sound) ==
  /\ call[g].pc = "await"
  /\ IF outcome = "ok"
     THEN /\ call' = [call EXCEPT ![g].pc = "save", ![g].outcome = outcome,
                                  ![g].isMock = is_mock, ![g].sound = sound]
          /\ UNCHANGED resp
     ELSE IF USE_MOCK_API
     THEN /\ call' = [call EXCEPT ![g].pc = "save", ![g].outcome = outcome,
                                  ![g].isMock = TRUE, ![g].sound = TRUE]
          /\ UNCHANGED resp
     ELSE /\ Answer(call[g].kind, Failure(outcome))
          /\ call' = [call EXCEPT ![g] = NoCall]
  /\ UNCHANGED <<products, carts, orders, req, tx, USE_MOCK_API, history>>

\* new Prediction({...}).save(); res.json(predictionDoc).  A document the
\* validators refuse, or a failing database, ends in the outer catch: 500.
PredictSave(g, fail) ==
  /\ call[g].pc = "save"
  /\ LET doc == Document(call[g].kind, call[g].farmer, call[g].isMock)
     IN IF fail \/ ~call[g].sound
        THEN /\ Answer(call[g].kind, 500)
             /\ UNCHANGED history
        ELSE /\ history' = Stored(history, doc)
             /\ resp' = [NoResp EXCEPT !.op = call[g].kind, !.code = 200,
                                       !.isMock = doc.isMock]
  /\ call' = [call EXCEPT ![g] = NoCall]
  /\ UNCHANGED <<products, carts, orders, req, tx, USE_MOCK_API>>

\* ------------------------------------------------------- specifications
QtyArgs == (0 - 1)..MaxStock
Quantities == 1..MaxStock
Actors == Farmers \cup Consumers
FarmerArgs == Farmers \cup {Undefined}

ItemArgs == [product : Products, quantity : Quantities]
RECURSIVE SeqsUpTo(_, _)
SeqsUpTo(S, n) ==
  IF n = 0 THEN {<<>>}
  ELSE LET shorter == SeqsUpTo(S, n - 1)
       IN shorter \cup {Append(s, x) : s \in {t \in shorter : Len(t) = n - 1}, x \in S}

\* What a checkout request may send as paymentMethod and shippingDetails:
\* nothing, or a valid value.
PaymentSent == {"", "online"}
ShippingSent == {{}, ShippingFields}

CheckoutNext(r) ==
  \/ \E c \in Consumers, payment \in PaymentSent, shipping \in ShippingSent :
       CheckoutStart(r, c, payment, shipping)
  \/ \E fail \in BOOLEAN : CheckoutItem(r, fail)
  \/ \E fail \in BOOLEAN : CheckoutOrders(r, fail)
  \/ \E fail \in BOOLEAN : CheckoutCommit(r, fail)
  \/ TxExpire(r)

\* A stocked catalogue and a cart the consumer has filled by adding one
\* line after the other (the stored total lags one save behind).
CartLines == [product : Products, quantity : Quantities]
ListedTotal(s) ==
  ItemsTotal([i \in 1..Len(s) |->
     [product |-> s[i].product, quantity |-> s[i].quantity,
      price |-> ListPrice(s[i].product)]])
InitCarted ==
  /\ products = [p \in Products |->
       [state |-> "live", price |-> ListPrice(p), quantity |-> MaxStock,
        status |-> StatusOf(MaxStock)]]
  /\ \E s \in SeqsUpTo(CartLines, MaxLines) \ {<<>>} :
       /\ \A i, j \in 1..Len(s) : i # j => s[i].product # s[j].product
       /\ carts = [c \in Consumers |->
            [exists |-> TRUE,
             items |-> [i \in 1..Len(s) |->
                          [id |-> i, product |-> s[i].product, quantity |-> s[i].quantity]],
             total |-> ListedTotal(SubSeq(s, 1, Len(s) - 1)),
             made |-> Len(s), dups |-> 0]]
  /\ orders = <<>>
  /\ req = [r \in Requests |-> Idle]
  /\ tx = [r \in Requests |-> NoTx]
  /\ resp = NoResp
  /\ GatewayAtRest

\* A direct order for one product, naming a farmer.
OrderOneNext(r) ==
  \/ \E c \in Consumers, item \in ItemArgs, f \in Farmers :
       OrderStart(r, c, <<item>>, f, TRUE)
  \/ OrderFind(r)
  \/ OrderSave(r)
  \/ OrderCreate(r)

\* Checkouts of a filled cart racing with each other and with direct orders.
NextRace == \E r \in Requests : CheckoutNext(r) \/ OrderOneNext(r)
SpecRace == InitCarted /\ [][NextRace]_vars

\* The life of one listing, from the empty database: its farmer creates,
\* updates and deletes it while a consumer fills the cart with it, checks
\* out and orders it directly, one request after the other.
Listed == {"pA"}
Sale == ListPrice("pA") - 1

ProductNext ==
  \/ \E p \in Listed, q \in QtyArgs : ProductCreate(p, q)
  \/ \E p \in Listed, a \in Farmers, setQ, setP \in BOOLEAN :
       \E q \in IF setQ THEN QtyArgs ELSE {0} : ProductUpdate(p, a, setQ, q, setP, Sale)
  \/ \E p \in Listed, a \in Farmers : ProductDelete(p, a)

CartAddNext(r) ==
  \/ \E c \in Consumers, p \in Listed, q \in Quantities : CartAddStart(r, c, p, q)
  \/ CartAddSave(r)

OrderListedNext(r) ==
  \/ \E c \in Consumers, p \in Listed, q \in Quantities, f \in FarmerArgs, valid \in BOOLEAN :
       OrderStart(r, c, <<[product |-> p, quantity |-> q]>>, f, valid)
  \/ OrderFind(r)
  \/ OrderSave(r)
  \/ OrderCreate(r)

NextCatalog ==
  \/ ProductNext
  \/ CartAddNext(1)
  \/ CheckoutNext(1)
  \/ OrderListedNext(1)
SpecCatalog == Init /\ [][NextCatalog]_vars

\* The ledger a checkout has filled, and the requests to change the status
\* of its orders.
\* req.body.cancelReason is read only when the status sent is cancelled.
ReasonsFor(status) == IF status = "cancelled" THEN Reasons ELSE {""}

StatusNext ==
  \E a \in Actors, k \in 1..MaxOrders, status \in Statuses :
     \E why \in ReasonsFor(status) : SetStatus(a, k, status, why)

CheckoutPaidNext(r) ==
  \/ \E c \in Consumers : CheckoutStart(r, c, "online", ShippingFields)
  \/ CheckoutItem(r, FALSE)
  \/ CheckoutOrders(r, FALSE)
  \/ CheckoutCommit(r, FALSE)

NextLedger == CheckoutPaidNext(1) \/ StatusNext
SpecLedger == InitCarted /\ [][NextLedger]_vars

\* The consumer's cart requests, interleaved, over a shelf that has a
\* product in full stock, one with a single unit left and one that is sold
\* out or not listed at all.
InitShelf ==
  /\ \E third \in {"live", "new"} :
       products = [p \in Products |->
          IF p = "pA"
          THEN [state |-> "live", price |-> ListPrice(p), quantity |-> MaxStock,
                status |-> StatusOf(MaxStock)]
          ELSE IF p = "pB"
          THEN [state |-> "live", price |-> ListPrice(p), quantity |-> 1,
                status |-> StatusOf(1)]
          ELSE IF third = "live"
          THEN [state |-> "live", price |-> ListPrice(p), quantity |-> 0,
                status |-> StatusOf(0)]
          ELSE NoProduct]
  /\ carts = [c \in Consumers |-> NoCart]
  /\ orders = <<>>
  /\ req = [r \in Requests |-> Idle]
  /\ tx = [r \in Requests |-> NoTx]
  /\ resp = NoResp
  /\ GatewayAtRest

ItemIds == 1..MaxIds

CartNext(r) ==
  \/ \E c \in Consumers, p \in Products, q \in Quantities : CartAddStart(r, c, p, q)
  \/ CartAddSave(r)
  \/ \E c \in Consumers, id \in ItemIds, q \in Quantities : CartUpdateStart(r, c, id, q)
  \/ CartUpdateSave(r)
  \/ \E c \in Consumers, id \in ItemIds : CartRemoveStart(r, c, id)
  \/ CartRemoveSave(r)

NextCart ==
  \/ \E r \in Requests : CartNext(r)
  \/ \E c \in Consumers : CartGet(c)
SpecCart == InitShelf /\ [][NextCart]_vars

\* The ledger a checkout has filled while the farmer of a product in it
\* changes the product's price and quantity and sets the status of orders.
RepriceNext ==
  \E p \in Listed, setQ, setP \in BOOLEAN :
     \E q \in IF setQ THEN Quantities ELSE {0} : ProductUpdate(p, Owner(p), setQ, q, setP, Sale)

\* Status requests of the farmers: a forward status, a cancellation and a
\* status the validator refuses.
StatusesSent == {"shipped", "cancelled", "pending"}
StatusSentNext ==
  \E a \in Farmers, k \in 1..MaxOrders, status \in StatusesSent :
     \E why \in ReasonsFor(status) : SetStatus(a, k, status, why)

NextBooks == CheckoutPaidNext(1) \/ StatusSentNext \/ RepriceNext
SpecBooks == InitCarted /\ [][NextBooks]_vars

\* A consumer without a cart at a stocked shelf: adds to the cart,
\* checkouts with and without payment method and shipping details, and
\* direct orders that pass or fail the validators, interleaved.
NextDoor == \E r \in Requests : CartAddNext(r) \/ CheckoutNext(r) \/ OrderListedNext(r)
SpecDoor == InitShelf /\ [][NextDoor]_vars

\* Direct orders of up to MaxLines items, one request after the other, at
\* the stocked shelf: items of any product, none at all, a body that
\* fails the validators.
ItemLists == SeqsUpTo(ItemArgs, MaxLines)

OrderSeveralNext(r) ==
  \/ \E c \in Consumers, items \in ItemLists, f \in FarmerArgs, valid \in BOOLEAN :
       OrderStart(r, c, items, f, valid)
  \/ OrderFind(r)
  \/ OrderSave(r)
  \/ OrderCreate(r)

NextDirect == OrderSeveralNext(1)
SpecDirect == InitShelf /\ [][NextDirect]_vars
\* Checkouts of a filled cart, sent twice and served side by side: the
\* requests are complete and no save fails for a reason of its own.
NextTwice == \E r \in Requests : CheckoutPaidNext(r) \/ TxExpire(r)
SpecTwice == InitCarted /\ [][NextTwice]_vars

\* Checkouts of a filled cart with whatever a client may send as payment
\* method (none, one outside the enumerated set, an enumerated one) and as
\* shipping details (none, all but the address, all but the city, all).
PaymentArgs == {"", "barter", "online"}
ShippingArgs == {{}, ShippingFields \ {"address"}, ShippingFields \ {"city"}, ShippingFields}

CheckoutAnyNext(r) ==
  \/ \E c \in Consumers, payment \in PaymentArgs, shipping \in ShippingArgs :
       CheckoutStart(r, c, payment, shipping)
  \/ CheckoutItem(r, FALSE)
  \/ CheckoutOrders(r, FALSE)
  \/ CheckoutCommit(r, FALSE)
  \/ TxExpire(r)

NextCounter == \E r \in Requests : CheckoutAnyNext(r)
SpecCounter == InitCarted /\ [][NextCounter]_vars

\* The prediction routers with the fallback switch on (as shipped) or off,
\* serving the farmers' and a consumer's requests side by side.
InitGateway ==
  /\ products = [p \in Products |-> NoProduct]
  /\ carts = [c \in Consumers |-> NoCart]
  /\ orders = <<>>
  /\ req = [r \in Requests |-> Idle]
  /\ tx = [r \in Requests |-> NoTx]
  /\ resp = NoResp
  /\ USE_MOCK_API \in BOOLEAN
  /\ history = <<>>
  /\ call = [g \in Requests |-> NoCall]

\* is_mock and the soundness of the data matter for a 2xx response only.
PredictNext(g) ==
  \/ \E kind \in Kinds, a \in Actors, valid \in BOOLEAN : PredictStart(g, kind, a, valid)
  \/ \E is_mock, sound \in BOOLEAN : PredictReply(g, "ok", is_mock, sound)
  \/ \E outcome \in Outcomes \ {"ok"} : PredictReply(g, outcome, FALSE, TRUE)
  \/ \E fail \in BOOLEAN : PredictSave(g, fail)

NextGateway == \E g \in Requests : PredictNext(g)
SpecGateway == InitGateway /\ [][NextGateway]_vars

\* ------------------------------------------------------------ properties
\* The step in which checkout r commits and answers 201.
Commits(r) ==
  /\ req[r].op = "checkout" /\ req[r].pc = "commit"
  /\ req'[r].pc = "idle"
  /\ resp'.op = "checkout" /\ resp'.code = 201

\* The orders a step adds to the ledger.
Created == SubSeq(orders', Len(orders) + 1, Len(orders'))

\* The farmers of the cart lines checkout r read.
LineFarmers(r) == {Owner(req[r].lines[i].product) : i \in 1..Len(req[r].lines)}

SplitsByFarmer(r) ==
  /\ SubSeq(orders', 1, Len(orders)) = orders
  /\ Len(Created) = Cardinality(LineFarmers(r))
  /\ \A k \in 1..Len(Created) :
       /\ Created[k].farmer \in LineFarmers(r)
       /\ Created[k].items # <<>>
       /\ \A j \in 1..Len(Created[k].items) :
            Owner(Created[k].items[j].product) = Created[k].farmer
       /\ \A m \in 1..Len(Created) : m # k => Created[m].farmer # Created[k].farmer
  /\ \A i \in 1..Len(req[r].lines) :
       \E k \in 1..Len(Created) : \E j \in 1..Len(Created[k].items) :
          /\ Created[k].items[j].product = req[r].lines[i].product
          /\ Created[k].items[j].quantity = req[r].lines[i].quantity

\* C1: a checkout that succeeds on a cart whose lines belong to N distinct
\* farmers adds exactly N orders to the ledger, one per farmer; every item
\* of an order is a product of that order's farmer, no two of the orders
\* have the same farmer, and every cart line is in one of them.
CheckoutSplitsByFarmer == [][\A r \in Requests : Commits(r) => SplitsByFarmer(r)]_vars

\* A checkout of a cart of two farmers has answered 201 with two orders.
TwoFarmersCheckedOut ==
  /\ resp.op = "checkout" /\ resp.code = 201 /\ resp.n = 2
  /\ Len(orders) = 2
  /\ orders[1].farmer # orders[2].farmer

RECURSIVE PricedSum(_, _)
PricedSum(items, n) ==
  IF n = 0 THEN 0 ELSE items[n].price * items[n].quantity + PricedSum(items, n - 1)
RECURSIVE ReadSum(_, _)
ReadSum(lines, n) ==
  IF n = 0 THEN 0 ELSE lines[n].doc.price * lines[n].quantity + ReadSum(lines, n - 1)
RECURSIVE AmountSum(_, _)
AmountSum(os, n) ==
  IF n = 0 THEN 0 ELSE os[n].totalAmount + AmountSum(os, n - 1)

TotalsAddUp(r) ==
  /\ \A k \in 1..Len(Created) :
       Created[k].totalAmount = PricedSum(Created[k].items, Len(Created[k].items))
  /\ AmountSum(Created, Len(Created)) = ReadSum(req[r].lines, Len(req[r].lines))

\* C2: on a successful checkout the totalAmount of each order created is the
\* sum of price * quantity over that order's items, and the totalAmounts of
\* the orders created add up to the sum of product price * cart quantity
\* over the cart lines as the checkout read them.
CheckoutTotals == [][\A r \in Requests : Commits(r) => TotalsAddUp(r)]_vars

\* A checkout has stored two orders, one of them for two units of a product.
TwoUnitsCheckedOut ==
  /\ resp.op = "checkout" /\ resp.code = 201 /\ resp.n = 2
  /\ \E k \in 1..Len(orders) :
       /\ orders[k].items[1].quantity = 2
       /\ orders[k].totalAmount = 2 * orders[k].items[1].price

\* Checkout r read a cart with a line that asks for more than the stock of
\* the product document read with it.
ReadShort(r) ==
  /\ req[r].op = "checkout"
  /\ \E i \in 1..Len(req[r].lines) :
       /\ req[r].lines[i].doc.present
       /\ req[r].lines[i].doc.stock < req[r].lines[i].quantity

\* Checkout r is at a line that asks for more than the stock read for it.
AtShort(r) ==
  /\ req[r].op = "checkout" /\ req[r].pc = "item"
  /\ req[r].lines[req[r].idx].doc.present
  /\ req[r].lines[req[r].idx].doc.stock < req[r].lines[req[r].idx].quantity

StoreUnchanged == products' = products /\ orders' = orders /\ carts' = carts

\* The step is one of handler r's own: its position moves.  (Another
\* handler's write only marks the version r holds as outdated.)
Steps(r) == req'[r].pc # req[r].pc \/ req'[r].idx # req[r].idx

RECURSIVE UnitsIn(_, _)
UnitsIn(items, p) ==
  IF items = <<>> THEN 0
  ELSE (IF Head(items).product = p THEN Head(items).quantity ELSE 0)
       + UnitsIn(Tail(items), p)
RECURSIVE Ordered(_, _)
Ordered(p, n) ==
  IF n = 0 THEN 0 ELSE UnitsIn(orders[n].items, p) + Ordered(p, n - 1)

\* No handler is between two of its steps and no transaction is open.
Quiet == \A r \in Requests : req[r].pc = "idle" /\ tx[r].state # "active"

\* C4: whatever the interleaving of checkouts and direct orders, once the
\* requests have returned, the on-hand quantity of every product plus the
\* units of it in the orders created equals its initial on-hand quantity.
NoOverselling ==
  Quiet => \A p \in Products : products[p].quantity + Ordered(p, Len(orders)) = MaxStock

\* The step in which checkout r, with at least one decrement written,
\* answers 500.
FailsAfterDecrement(r) ==
  /\ req[r].op = "checkout" /\ req[r].pc # "idle"
  /\ tx[r].pq # <<>>
  /\ req'[r].pc = "idle"
  /\ resp'.op = "checkout" /\ resp'.code = 500

\* C6: a checkout that fails with a storage or transaction error after its
\* first stock decrement (at a later product save, an order save or the
\* cart save) leaves every product, the ledger and the cart as they were,
\* and its transaction is gone with the writes it had buffered.
FailedCheckoutRollsBack ==
  [][\A r \in Requests :
       FailsAfterDecrement(r) => (StoreUnchanged /\ tx'[r] = NoTx /\ resp'.txn = "aborted")]_vars

\* A checkout of the full cart answered 500 after writing both decrements:
\* the stock is intact, the ledger empty, the cart still filled.
RolledBackTwoDecrements ==
  /\ resp.op = "checkout" /\ resp.code = 500 /\ resp.txn = "aborted" /\ resp.rolled = 2
  /\ \A p \in Products : products[p].quantity = MaxStock
  /\ orders = <<>>
  /\ Len(carts["c1"].items) = 2
  /\ \A r \in Requests : tx[r] = NoTx

\* C7: after a successful checkout the consumer's cart document still
\* exists and has no items.
CheckoutEmptiesCart ==
  [][\A r \in Requests :
       Commits(r) => (carts'[req[r].user].exists /\ carts'[req[r].user].items = <<>>)]_vars

\* A checkout has answered 201 and the cart is there, empty.
CartEmptiedByCheckout ==
  /\ resp.op = "checkout" /\ resp.code = 201
  /\ carts["c1"].exists /\ carts["c1"].items = <<>>
  /\ orders # <<>>

\* Units of product p in the cart lines checkout r read.
RECURSIVE UnitsRead(_, _)
UnitsRead(lines, p) ==
  IF lines = <<>> THEN 0
  ELSE (IF Head(lines).product = p THEN Head(lines).quantity ELSE 0)
       + UnitsRead(Tail(lines), p)

\* C8: a successful checkout lowers the on-hand quantity of every product of
\* the cart by exactly the quantity of its cart line and leaves the on-hand
\* quantity of every other product as it was.
CheckoutDecrementsExactly ==
  [][\A r \in Requests :
       Commits(r) => \A p \in Products :
          products'[p].quantity = products[p].quantity - UnitsRead(req[r].lines, p)]_vars

\* C9: every order of the ledger, created by checkout or directly, names one
\* farmer, and each of its items is a product of that farmer.
OrdersOfOneFarmer ==
  \A k \in 1..Len(orders) :
     /\ orders[k].farmer \in Farmers
     /\ \A j \in 1..Len(orders[k].items) :
          Owner(orders[k].items[j].product) = orders[k].farmer

\* C5: the on-hand quantity of every product of the catalogue is never
\* negative, whatever products are created, updated, put in the cart,
\* checked out or ordered directly.
QuantityNeverNegative ==
  \A p \in Products : products[p].state = "live" => products[p].quantity >= 0

\* C10: a request to set the status of an order, made with any status of
\* the enumerated set by an actor who is not the farmer of that order, is
\* answered 401 or 403 and leaves the order (its status and cancelReason
\* with it) as it was.
OnlyTheFarmerSetsStatus ==
  [][\A k \in 1..Len(orders) : \A a \in Actors \ {orders[k].farmer} :
       \A status \in SettableStatuses : \A why \in ReasonsFor(status) :
          SetStatus(a, k, status, why) => (resp'.code \in {401, 403} /\ orders' = orders)]_vars

\* Another farmer's request on a pending order has been answered 401; the
\* order is still pending.
StrangerTurnedAway ==
  /\ resp.op = "setStatus" /\ resp.code = 401
  /\ Len(orders) = 1
  /\ orders[1].status = "pending" /\ orders[1].cancelReason = ""

\* Position of a status on the chain pending, confirmed, processing,
\* shipped, delivered.
Rank(status) ==
  CASE status = "pending" -> 0
    [] status = "confirmed" -> 1
    [] status = "processing" -> 2
    [] status = "shipped" -> 3
    [] status = "delivered" -> 4
    [] OTHER -> 5

\* C11: delivered and cancelled are terminal: an order that is delivered or
\* cancelled keeps that status whatever status requests follow.
TerminalStatusesStay ==
  [][\A k \in 1..Len(orders) :
       orders[k].status \in {"delivered", "cancelled"}
          => orders'[k].status = orders[k].status]_vars

\* C12: every change of an order's status is one step forward on the chain
\* pending, confirmed, processing, shipped, delivered, or takes an order
\* that is not delivered to cancelled.
StatusMovesOneStep ==
  [][\A k \in 1..Len(orders) :
       orders'[k].status # orders[k].status =>
          \/ /\ orders[k].status # "cancelled" /\ orders'[k].status # "cancelled"
             /\ Rank(orders'[k].status) = Rank(orders[k].status) + 1
          \/ /\ orders'[k].status = "cancelled"
             /\ orders[k].status # "delivered"]_vars

Saves(r, op) == req[r].op = op /\ req[r].pc = "save" /\ req'[r].pc = "idle"

\* C14: a DELETE /cart/:itemId for an item id that is not in the consumer's
\* cart (as it is after a first DELETE of that id) is answered 404 and
\* leaves the cart as it was.
RemoveOfAbsentItemIsNotFound ==
  [][\A r \in Requests :
       (Saves(r, "cartRemove")
          /\ \A i \in 1..Len(carts[req[r].user].items) :
                carts[req[r].user].items[i].id # req[r].idx)
       => (resp'.op = "cartRemove" /\ resp'.code = 404 /\ carts' = carts)]_vars

\* C15: whatever add, update and remove requests of a consumer interleave,
\* the cart never holds two lines of the same product.
OneLinePerProduct ==
  \A c \in Consumers : \A i, j \in 1..Len(carts[c].items) :
     i # j => carts[c].items[i].product # carts[c].items[j].product

\* price * quantity summed over the lines of a cart, at the prices of the
\* catalogue.
RECURSIVE LinesSum(_, _)
LinesSum(items, n) ==
  IF n = 0 THEN 0
  ELSE (IF products[items[n].product].state = "live"
        THEN products[items[n].product].price * items[n].quantity ELSE 0)
       + LinesSum(items, n - 1)

\* C16: after every completed cart mutation the stored total of the cart is
\* the sum of product price * quantity over the lines the cart then holds.
StoredTotalIsSum ==
  [][\A c \in Consumers :
       carts'[c] # carts[c] =>
          carts'[c].total = LinesSum(carts'[c].items, Len(carts'[c].items))]_vars

\* The product is unknown, not available or short of the quantity asked.
Refused(p, q) ==
  \/ products[p].state # "live"
  \/ products[p].status # "available"
  \/ products[p].quantity < q

\* C17: a POST /cart for a product that does not exist is answered 404, and
\* one for a product that is not available or has less on hand than the
\* quantity asked is answered 400; neither creates a cart nor changes one.
\* Only a request whose product passed these checks goes on to save, and
\* only such a request is answered 200.
CartAddChecksProduct ==
  [][/\ \A r \in Requests, c \in Consumers, p \in Products, q \in Quantities :
          CartAddStart(r, c, p, q) =>
             IF Refused(p, q)
             THEN /\ resp'.op = "cartAdd"
                  /\ resp'.code = IF products[p].state # "live" THEN 404 ELSE 400
                  /\ req'[r].pc = "idle"
                  /\ carts' = carts
             ELSE req'[r].pc = "save" /\ carts' = carts
     /\ \A r \in Requests :
          (Saves(r, "cartAdd") /\ resp'.code = 200) =>
             /\ req[r].lines[1].doc.present
             /\ req[r].lines[1].doc.status = "available"
             /\ req[r].lines[1].doc.stock >= req[r].lines[1].quantity]_vars

\* A POST /cart was refused with 400 and the cart filled before is intact.
AddRefusedCartKept ==
  /\ resp.op = "cartAdd" /\ resp.code = 400
  /\ carts["c1"].exists /\ Len(carts["c1"].items) = 2
  /\ \A r \in Requests : req[r].pc = "idle"

OneCartPerConsumer ==
  [][/\ \A c \in Consumers :
          /\ carts'[c].dups = 0
          /\ (~carts[c].exists /\ carts'[c].exists)
                => \E r \in Requests : Saves(r, "cartAdd") /\ req[r].user = c
          /\ CartGet(c) =>
                (/\ carts' = carts
                 /\ resp'.code = 200
                 /\ resp'.n = Len(carts[c].items))]_vars

\* Two first adds interleaved: one stored the cart, the other was refused
\* by the unique index.
SecondFirstAddRefused ==
  /\ resp.op = "cartAdd" /\ resp.code = 500
  /\ carts["c1"].exists /\ carts["c1"].made = 1 /\ Len(carts["c1"].items) = 1
  /\ carts["c1"].dups = 0

\* C20: the status of every product of the catalogue agrees with its
\* quantity: available exactly when the quantity is above zero, sold_out
\* otherwise.
StatusFollowsQuantity ==
  \A p \in Products :
     products[p].state = "live" =>
        (products[p].status = "available" <=> products[p].quantity > 0)
        /\ products[p].status \in {"available", "sold_out"}

\* C21: a checkout request whose payment method is not one of the
\* enumerated set, or whose shipping details lack any one of full name,
\* address, city, state, postal code and phone, is answered 400 at once and
\* creates no order.
CheckoutValidatesInput ==
  [][\A r \in Requests, c \in Consumers, payment \in PaymentArgs, shipping \in ShippingArgs :
       (CheckoutStart(r, c, payment, shipping)
          /\ (payment \notin PaymentMethods \/ shipping # ShippingFields))
       => (/\ resp'.op = "checkout" /\ resp'.code = 400
           /\ req'[r].pc = "idle"
           /\ orders' = orders)]_vars

\* The step in which prediction handler g answers 200 with its result.
Predicts(g) ==
  /\ call[g].pc = "save" /\ call'[g].pc = "idle"
  /\ resp'.op = call[g].kind /\ resp'.code = 200

\* C22: for both kinds of prediction, a request whose call to the model
\* service ended in a timeout or a connection failure while the fallback
\* is enabled is answered with the mock flag set to true, and the history
\* record stored for it carries the flag with that value.
FallbackIsFlagged ==
  [][\A g \in Requests :
       (Predicts(g) /\ USE_MOCK_API /\ call[g].outcome \in {"refused", "timeout"})
       => (/\ resp'.isMock = "true"
           /\ Len(history') = Len(history) + 1
           /\ history'[Len(history')].isMock = "true")]_vars

\* C23: every prediction that is answered with a result, the remote
\* service's or the local fallback's, has added exactly one record to the
\* history, a record of the requesting farmer and of the request's kind,
\* stored by the time the answer is given; the history grows in no other
\* step, and no step answers a prediction with 200 without storing.
PredictionsAreRecorded ==
  [][/\ \A g \in Requests :
          Predicts(g) =>
             /\ Len(history') = Len(history) + 1
             /\ SubSeq(history', 1, Len(history)) = history
             /\ history'[Len(history')].farmerId = call[g].farmer
             /\ history'[Len(history')].kind = call[g].kind
             /\ call[g].farmer \in Farmers
     /\ history' # history => \E g \in Requests : Predicts(g)
     /\ (resp'.op \in Kinds /\ resp'.code = 200 /\ resp' # resp)
           => \E g \in Requests : Predicts(g)]_vars

\* A yield prediction of the remote service and one of the local fallback
\* have been answered; the history holds the two records in that order.
RemoteAndLocalRecorded ==
  /\ resp.op = "yield" /\ resp.code = 200 /\ resp.isMock = "true"
  /\ Len(history) = 2
  /\ history[1].isMock = "false" /\ history[2].isMock = "true"
  /\ history[1].farmerId # history[2].farmerId

UpstreamErrorIsRelayed ==
  [][\A g \in Requests :
       /\ PredictReply(g, "error", FALSE, TRUE) =>
             (/\ resp'.op = call[g].kind /\ resp'.code = UpstreamStatus
              /\ call'[g].pc = "idle" /\ history' = history)
       /\ (call[g].pc = "await" /\ call'[g].pc = "save" /\ call'[g].outcome # "ok")
             => call'[g].outcome \in {"refused", "timeout"}]_vars

\* The fields of an order that are fixed at creation.
Frozen(o) ==
  [consumer |-> o.consumer, farmer |-> o.farmer, items |-> o.items,
   totalAmount |-> o.totalAmount]

\* C26: once an order is in the ledger its consumer, farmer, line items
\* (product, price, quantity) and totalAmount never change, whatever
\* product updates, checkouts and status requests follow; a status request
\* changes nothing of the order but status and cancelReason, and nothing
\* of any other order, product or cart.
OrdersAreFrozen ==
  [][/\ Len(orders') >= Len(orders)
     /\ \A k \in 1..Len(orders) :
          /\ Frozen(orders'[k]) = Frozen(orders[k])
          /\ [orders'[k] EXCEPT !.status = orders[k].status,
                                !.cancelReason = orders[k].cancelReason] = orders[k]
     /\ (resp'.op = "setStatus" /\ resp' # resp) =>
           (/\ Len(orders') = Len(orders)
            /\ products' = products /\ carts' = carts
            /\ Cardinality({k \in 1..Len(orders) : orders'[k] # orders[k]}) <= 1)]_vars

\* An order was cancelled with a reason after its product had been
\* repriced: the order still has the price and the total of the time it
\* was made.
RepricedOrderKept ==
  /\ resp.op = "setStatus" /\ resp.code = 200
  /\ \E k \in 1..Len(orders) :
       /\ orders[k].status = "cancelled" /\ orders[k].cancelReason = "spoiled"
       /\ orders[k].items[1].product = "pA"
       /\ products["pA"].price = Sale
       /\ orders[k].items[1].price = ListPrice("pA")
       /\ orders[k].totalAmount = PricedSum(orders[k].items, Len(orders[k].items))

\* C27: a checkout without payment method or without shipping details, a
\* checkout of a consumer whose cart is missing or empty, and a direct
\* order that fails the validators are answered 400 at once; products,
\* carts and orders stay as they were, nothing has been written in the
\* request's transaction, and the later end of the session it leaves
\* behind changes nothing either.
InvalidRequestTouchesNothing ==
  [][\A r \in Requests, c \in Consumers :
       /\ \A payment \in PaymentSent, shipping \in ShippingSent :
            (CheckoutStart(r, c, payment, shipping)
               /\ (payment = "" \/ shipping = {} \/ ~carts[c].exists \/ carts[c].items = <<>>))
            => (/\ resp'.op = "checkout" /\ resp'.code = 400
                /\ req'[r].pc = "idle"
                /\ StoreUnchanged
                /\ tx'[r].pq = <<>> /\ tx'[r].orders = <<>> /\ ~tx'[r].begun)
       /\ \A p \in Listed, q \in Quantities, f \in FarmerArgs :
            OrderStart(r, c, <<[product |-> p, quantity |-> q]>>, f, FALSE)
            => (/\ resp'.op = "order" /\ resp'.code = 400
                /\ req'[r].pc = "idle"
                /\ StoreUnchanged
                /\ tx'[r] = NoTx)
       /\ (req[r].pc = "idle" /\ tx[r].state = "active" /\ tx[r].pq = <<>>
              /\ tx'[r].state # "active")
            => StoreUnchanged]_vars

\* A checkout was refused with 400 although the cart is filled and the
\* product in stock: nothing is written in its transaction, the cart and
\* the stock are there, the ledger is empty.
CheckoutRefusedAtTheDoor ==
  /\ resp.op = "checkout" /\ resp.code = 400
  /\ carts["c1"].exists /\ Len(carts["c1"].items) = 1
  /\ products["pA"].state = "live" /\ products["pA"].quantity = MaxStock
  /\ tx[1].state = "active" /\ tx[1].pq = <<>> /\ ~tx[1].begun
  /\ orders = <<>>

\* C28: a checkout handler that has returned has ended the transaction it
\* started, by commit or by abort, whatever path it took.
CheckoutEndsTransaction ==
  \A r \in Requests : req[r].pc = "idle" => tx[r].state # "active"

\* C29: a direct order that is not answered 201 (a product missing or
\* short, an empty items list, a failing order save) has written no
\* product: none of its items was saved before it failed.
DirectOrderAllOrNothing ==
  [][\A r \in Requests :
       (req[r].op = "order" /\ req[r].pc # "idle" /\ req'[r].pc = "idle"
          /\ resp'.code # 201)
       => (req[r].idx = 1 /\ products' = products)]_vars

\* C30: a cart's contents become orders at most once.  Of the checkouts of
\* a consumer that read the same cart contents at most one commits: the
\* one that commits finds the cart as it read it, no order of the consumer
\* in the ledger and the stock untouched, so that afterwards the units
\* ordered of every product and the units taken from its stock are those
\* of the cart line.
CartConvertedOnce ==
  [][\A r \in Requests :
       Commits(r) =>
          /\ orders = <<>>
          /\ Len(carts[req[r].user].items) = Len(req[r].lines)
          /\ \A p \in Products :
               /\ products[p].quantity = MaxStock
               /\ products'[p].quantity = MaxStock - UnitsRead(req[r].lines, p)
               /\ Ordered(p, Len(orders))' = UnitsRead(req[r].lines, p)]_vars

\* Two checkouts read the same cart; one committed, the other had written
\* its stock decrement and was rolled back: one order, the stock lowered
\* once, the cart empty.
SecondCheckoutRolledBack ==
  /\ resp.op = "checkout" /\ resp.code = 500 /\ resp.rolled >= 1
  /\ Len(orders) = 1
  /\ carts["c1"].items = <<>>
  /\ \A p \in Products : products[p].quantity + Ordered(p, Len(orders)) = MaxStock
  /\ \A r \in Requests : req[r].pc = "idle"

====
